---- MODULE Spec2Model ----
(***************************************************************************)
(* Research_hunter: scoring and ranking of paper metadata.                 *)
(*                                                                         *)
(* Two scorers exist side by side: the configurable offline one            *)
(* (offline_analyzer.py) and the weighted-keyword one used by the CLI's    *)
(* live search (scoring.py).  Both are modelled, with the two pipelines    *)
(* that call them (analyze_corpus, cmd_search) and the HTTP client.        *)
(*                                                                         *)
(* A Python str holding text is a sequence of one-character strings.  A    *)
(* field value read from JSON (a year, a citation count) is a tagged       *)
(* record, so that a malformed value such as the string "n/a" is a value   *)
(* of the model like any other.                                            *)
(***************************************************************************)
EXTENDS Integers, Sequences, FiniteSets, TLC

VARIABLES
    today,  \* the year of the system date, date.today().year
    cfg,    \* the loaded configuration and the caller's fixed arguments
    call,   \* the most recent call: its function, arguments and result
    disk    \* the output files: NoFile, or the rows last written

vars == <<today, cfg, call, disk>>

\* JSON values as Python holds them: None, an int, a bool, or a str.  A str
\* value is known by its rank in Python's str order: rank 0 is the empty
\* string, the others are texts that are not numbers (such as "n/a").
None == [none |-> 0]
PyInt(n) == [int |-> n]
PyBool(b) == [bool |-> b]
PyStr(rank) == [str |-> rank]
IsNone(x) == DOMAIN x = {"none"}
IsInt(x) == DOMAIN x = {"int"}
IsBool(x) == DOMAIN x = {"bool"}
IsStr(x) == DOMAIN x = {"str"}

\* JSON containers: a list is the sequence of its items, a dict the function
\* from its keys to their values.
PyList(xs) == [list |-> xs]
PyDict(d) == [dict |-> d]
IsList(x) == DOMAIN x = {"list"}
IsDict(x) == DOMAIN x = {"dict"}

NoCall == [fn |-> "none"]

\* The output files: the CSV of analyze, and results.json with results.csv
\* of search, which hold the same rows.
NoFile == [exists |-> FALSE, rows |-> <<>>]
File(rows) == [exists |-> TRUE, rows |-> rows]
NoOutputs == [scored_csv |-> NoFile, results |-> NoFile]

\* The default of --this-year and of analyze_corpus; the system date starts
\* in that year.
BaseYear == 2026

(***************************************************************************)
(* Bounds of the model.                                                    *)
(***************************************************************************)
MaxImpactMax == 90
MaxRecencyMax == 45
MaxTextLen == 3
MaxTicks == 2
MaxPapers == 3

----------------------------------------------------------------------------
(***************************************************************************)
(* Python built-ins on str, int and list.                                  *)
(***************************************************************************)

\* The characters of the model, in code point order ("BACKTICK" stands
\* for the character U+0060, which a TLA+ string cannot hold).
Chars ==
    << "\n", " ", "\"", "(", ")", "*", "/", ":", ";",
       "A", "B", "C", "D", "E", "F", "G", "H", "I", "J", "K", "L", "M",
       "N", "O", "P", "Q", "R", "S", "T", "U", "V", "W", "X", "Y", "Z",
       "[", "]", "_", "BACKTICK",
       "a", "b", "c", "d", "e", "f", "g", "h", "i", "j", "k", "l", "m",
       "n", "o", "p", "q", "r", "s", "t", "u", "v", "w", "x", "y", "z",
       "{", "}" >>

\* The place of every character in Chars.
ord_table ==
    [c \in {Chars[i] : i \in 1..Len(Chars)} |->
        CHOOSE i \in 1..Len(Chars) : Chars[i] = c]

ord(c) == ord_table[c]

\* The str or list with the items f[1], ..., f[Len(f)].
items(f) == SubSeq(f, 1, Len(f))

\* str.lower on one character: "A".."Z" are 32 code points below "a".."z";
\* in Chars the two alphabets are 30 places apart.
lower_char(c) ==
    IF ord(c) >= ord("A") /\ ord(c) <= ord("Z")
        THEN Chars[ord(c) + (ord("a") - ord("A"))]
        ELSE c

lower(s) == items([i \in 1..Len(s) |-> lower_char(s[i])])

\* \s of the re module, within Chars.
IsSpace(c) == c \in {" ", "\n"}

RECURSIVE lstrip(_)
lstrip(s) ==
    IF s # <<>> /\ IsSpace(Head(s)) THEN lstrip(Tail(s)) ELSE s

RECURSIVE rstrip(_)
rstrip(s) ==
    IF s # <<>> /\ IsSpace(s[Len(s)]) THEN rstrip(SubSeq(s, 1, Len(s) - 1)) ELSE s

strip(s) == rstrip(lstrip(s))

\* re.sub(r"\s+", " ", s): every maximal run of whitespace becomes one
\* space, which stands where the run began.
run_start(r) == r.keep

collapse_spaces(s) ==
    LET marked == items([i \in 1..Len(s) |->
                     [ c |-> IF IsSpace(s[i]) THEN " " ELSE s[i],
                       keep |-> ~IsSpace(s[i]) \/ i = 1 \/ ~IsSpace(s[i - 1]) ]])
        kept == SelectSeq(marked, run_start)
    IN  items([i \in 1..Len(kept) |-> kept[i].c])

\* str.replace / re.sub of a character class by a space.
replace_chars(s, class) ==
    items([i \in 1..Len(s) |-> IF s[i] \in class THEN " " ELSE s[i]])

\* k in t, for two str.
Contains(t, k) ==
    \E i \in 0..(Len(t) - Len(k)) : SubSeq(t, i + 1, i + Len(k)) = k

StartsWith(s, p) == Len(s) >= Len(p) /\ SubSeq(s, 1, Len(p)) = p

\* a < b, for two str: lexicographic by code point.
RECURSIVE StrLess(_, _)
StrLess(a, b) ==
    IF b = <<>> THEN FALSE
    ELSE IF a = <<>> THEN TRUE
    ELSE IF Head(a) = Head(b) THEN StrLess(Tail(a), Tail(b))
    ELSE ord(Head(a)) < ord(Head(b))

\* s[:n], with Python's meaning of a negative n.
slice_to(s, n) ==
    IF n >= 0 THEN SubSeq(s, 1, IF n < Len(s) THEN n ELSE Len(s))
    ELSE SubSeq(s, 1, IF Len(s) + n > 0 THEN Len(s) + n ELSE 0)

Range(s) == {s[i] : i \in 1..Len(s)}

min(a, b) == IF a <= b THEN a ELSE b
max(a, b) == IF a >= b THEN a ELSE b

\* sorted(xs) for a list of str: a stable ascending sort, built by insertion
\* (x goes after every element that is not greater than it).
RECURSIVE insert_str(_, _)
insert_str(x, s) ==
    IF s = <<>> THEN <<x>>
    ELSE IF StrLess(x, Head(s)) THEN <<x>> \o s
    ELSE <<Head(s)>> \o insert_str(x, Tail(s))

RECURSIVE sorted_strs(_)
sorted_strs(s) ==
    IF s = <<>> THEN <<>>
    ELSE insert_str(s[Len(s)], sorted_strs(SubSeq(s, 1, Len(s) - 1)))

\* list(hits) in place of set(hits): every append of a keyword is kept.
keep_duplicates(s) == s

\* list(set(xs)) in the order of first occurrence; sorted() then fixes the order.
RECURSIVE unique(_)
unique(s) ==
    IF s = <<>> THEN <<>>
    ELSE LET rest == unique(SubSeq(s, 1, Len(s) - 1))
         IN  IF s[Len(s)] \in Range(rest) THEN rest ELSE Append(rest, s[Len(s)])

\* bool(x): Python's truth value of a JSON value.
truthy(x) ==
    IF IsNone(x) THEN FALSE
    ELSE IF IsInt(x) THEN x.int # 0
    ELSE IF IsBool(x) THEN x.bool
    ELSE x.str # 0

\* bool(x) for the value of a JSON key that holds a list or null.
truthy_list(x) == IsList(x) /\ x.list # <<>>

\* x or d
py_or(x, d) == IF truthy(x) THEN x ELSE d

\* int(x) for a JSON value that int() accepts: a bool counts as 0 or 1.
int_of(x) == IF IsBool(x) THEN (IF x.bool THEN 1 ELSE 0) ELSE x.int

\* Whether int(x) raises: TypeError on None, ValueError on a str that is no
\* number.
int_raises(x) == IsNone(x) \/ IsStr(x)

----------------------------------------------------------------------------
(***************************************************************************)
(* offline_analyzer.py: normalisation.                                     *)
(***************************************************************************)

_norm(s) == collapse_spaces(lower(strip(s)))

\* None for None, a bool and whatever int() rejects; the int otherwise.
_safe_int(x) ==
    IF IsNone(x) \/ IsBool(x) THEN None
    ELSE IF int_raises(x) THEN None
    ELSE PyInt(int_of(x))

\* The least j >= i at which pat starts in t, 0 when there is none.
find_from(t, pat, i) ==
    LET found == {j \in i..(Len(t) - Len(pat) + 1) :
                     t[j] = pat[1] /\ SubSeq(t, j, j + Len(pat) - 1) = pat}
    IN  IF found = {} THEN 0 ELSE CHOOSE j \in found : \A k \in found : j <= k

\* The end of the \S+ run that starts at position i of t (i - 1 when empty).
nonspace_end(t, i) ==
    LET spaces == {j \in i..Len(t) : IsSpace(t[j])}
    IN  IF spaces = {} THEN Len(t)
        ELSE (CHOOSE j \in spaces : \A k \in spaces : j <= k) - 1

\* Where r"https?://\S+" first matches in t at or after i: [from, to], from 0
\* when it matches nowhere.
url_match(t, i) ==
    LET scheme == <<"h", "t", "t", "p">>
        sep == <<":", "/", "/">>
        body(j) == IF StartsWith(SubSeq(t, j + 4, Len(t)), <<"s">> \o sep) THEN j + 8
                   ELSE IF StartsWith(SubSeq(t, j + 4, Len(t)), sep) THEN j + 7
                   ELSE 0
        found == {j \in i..Len(t) :
                     /\ t[j] = "h"
                     /\ StartsWith(SubSeq(t, j, Len(t)), scheme)
                     /\ body(j) # 0
                     /\ nonspace_end(t, body(j)) >= body(j)}
        from == IF found = {} THEN 0 ELSE CHOOSE j \in found : \A k \in found : j <= k
    IN  [from |-> from, to |-> IF from = 0 THEN 0 ELSE nonspace_end(t, body(from))]

\* re.sub(r"https?://\S+", " ", t), scanning from position i: one step for
\* every match.
RECURSIVE sub_urls(_, _)
sub_urls(t, i) ==
    LET m == url_match(t, i)
    IN  IF m.from = 0 THEN SubSeq(t, i, Len(t))
        ELSE SubSeq(t, i, m.from - 1) \o <<" ">> \o sub_urls(t, m.to + 1)

\* re.sub of a span opened and closed by the same delimiter (the fence of
\* r"```.*?```" with DOTALL, the backtick of r"`[^`]*`"), scanning from i.
\* The span ends at the nearest closing delimiter; when the first opening
\* delimiter has none after it, no later one has.
RECURSIVE sub_spans(_, _, _)
sub_spans(t, delim, i) ==
    LET open == find_from(t, delim, i)
        close == IF open = 0 THEN 0 ELSE find_from(t, delim, open + Len(delim))
    IN  IF close = 0 THEN SubSeq(t, i, Len(t))
        ELSE SubSeq(t, i, open - 1) \o <<" ">>
                 \o sub_spans(t, delim, close + Len(delim))

_tokenize(text) ==
    LET t1 == _norm(text)
        t2 == sub_urls(t1, 1)
        t3 == sub_spans(t2, <<"BACKTICK", "BACKTICK", "BACKTICK">>, 1)
        t4 == sub_spans(t3, <<"BACKTICK">>, 1)
        t5 == replace_chars(t4, {"/", ":", ";"})
        t6 == replace_chars(t5, {"(", ")", "[", "]", "{", "}", "*", "_", "\""})
    IN  strip(collapse_spaces(t6))

----------------------------------------------------------------------------
(***************************************************************************)
(* The keyword phrases of the built-in configurations.                     *)
(***************************************************************************)
kw_emotion_regulation ==
    <<"e", "m", "o", "t", "i", "o", "n", " ", "r", "e", "g", "u", "l", "a",
      "t", "i", "o", "n">>
kw_affective_computing ==
    <<"a", "f", "f", "e", "c", "t", "i", "v", "e", " ", "c", "o", "m", "p",
      "u", "t", "i", "n", "g">>
kw_ecological_momentary_assessment ==
    <<"e", "c", "o", "l", "o", "g", "i", "c", "a", "l", " ", "m", "o", "m",
      "e", "n", "t", "a", "r", "y", " ", "a", "s", "s", "e", "s", "s", "m",
      "e", "n", "t">>
kw_experience_sampling ==
    <<"e", "x", "p", "e", "r", "i", "e", "n", "c", "e", " ", "s", "a", "m",
      "p", "l", "i", "n", "g">>
kw_digital_mental_health ==
    <<"d", "i", "g", "i", "t", "a", "l", " ", "m", "e", "n", "t", "a", "l",
      " ", "h", "e", "a", "l", "t", "h">>
kw_resilience ==
    <<"r", "e", "s", "i", "l", "i", "e", "n", "c", "e">>
kw_mental_health ==
    <<"m", "e", "n", "t", "a", "l", " ", "h", "e", "a", "l", "t", "h">>
kw_wearable ==
    <<"w", "e", "a", "r", "a", "b", "l", "e">>
kw_multimodal ==
    <<"m", "u", "l", "t", "i", "m", "o", "d", "a", "l">>
kw_emotion ==
    <<"e", "m", "o", "t", "i", "o", "n">>

\* d.get(k, dflt) for a dict d, a function on its keys here.
get(d, k, dflt) == IF k \in DOMAIN d THEN d[k] ELSE dflt

----------------------------------------------------------------------------
(***************************************************************************)
(* Binary floating point.  Python computes max_points * 0.7 and            *)
(* max_points * (1 - age / 10) in IEEE 754 doubles; the operators below    *)
(* give the integer that int() or round() then returns, for                *)
(* 0 <= max_points <= 5000.                                                *)
(***************************************************************************)

RECURSIVE floor_log2(_)
floor_log2(n) == IF n < 2 THEN 0 ELSE 1 + floor_log2(n \div 2)

\* Whether m * d rounds to a double below the exact product q of m and 0.7,
\* d being the double nearest 0.7 (0.4 ulp under it): the shortfall 0.4 * m
\* ulps of d exceeds half the spacing of the doubles just under q.
below_07(m, q) == m > 0 /\ q >= 1 /\ 2 * m > 5 * 2 ^ floor_log2(q)

\* int(m * 0.7).  The product is the integer 7m/10 only for m a multiple of
\* 10; elsewhere its fraction is at least 0.1 and the rounding cannot matter.
int_mul_07(m) ==
    LET q == (m * 7) \div 10
    IN  IF m % 10 = 0 /\ below_07(m, q) THEN q - 1 ELSE q

\* int(m * f) for the other factors of _impact_points, per cent being 100 f:
\* 0.25 is a double, the doubles nearest 0.55, 0.4 and 0.1 lie above them, and
\* the one nearest 0.85 lies 0.2 ulp below, too near for the product to fall
\* short of an integer.
int_mul(m, percent) == (m * percent) \div 100

\* round() of a double that is exactly n + 1/2: to the even neighbour.
half_even(n) == IF n % 2 = 0 THEN n ELSE n + 1

\* int(round(m * (1 - age / 10))) for 0 <= age < 10.  The doubles 1 - 7/10
\* and 1 - 9/10 lie above 0.3 and below 0.1, so a tie of the exact product is
\* no tie of the double: it goes up at age 7 and down at age 9.  1 - 3/10 is
\* the double nearest 0.7; the other factors give the exact product.
round_decay(m, age) ==
    LET num == m * (10 - age)
        q == num \div 10
        r == num % 10
    IN  IF r < 5 THEN q
        ELSE IF r > 5 THEN q + 1
        ELSE IF age = 7 THEN q + 1
        ELSE IF age = 9 THEN q
        ELSE IF age = 3 /\ below_07(m, q) THEN q
        ELSE half_even(q)

----------------------------------------------------------------------------
(***************************************************************************)
(* offline_analyzer.py: the configurable scorer.                           *)
(***************************************************************************)

DEFAULT_CONFIG ==
    [ weights |-> [relevance_max |-> 60, impact_max |-> 20, recency_max |-> 20],
      relevance |->
        [ points_per_hit |-> 6,
          max_unique_hits |-> 10,
          stopwords |->
            << <<"a", "n", "d">>, <<"t", "h", "e">>, <<"w", "i", "t", "h">>,
               <<"f", "r", "o", "m">>, <<"i", "n", "t", "o">>, <<"f", "o", "r">>,
               <<"t", "o">>, <<"o", "f">>, <<"i", "n">>, <<"o", "n">>, <<"b", "y">>,
               <<"u", "s", "i", "n", "g">>, <<"b", "a", "s", "e", "d">>,
               <<"a", "p", "p", "r", "o", "a", "c", "h">>,
               <<"f", "r", "a", "m", "e", "w", "o", "r", "k">>,
               <<"s", "y", "s", "t", "e", "m">>, <<"m", "o", "d", "e", "l">>,
               <<"d", "a", "t", "a">> >> ],
      topic_keywords |->
        << kw_emotion_regulation, kw_ecological_momentary_assessment,
           kw_experience_sampling, kw_digital_mental_health,
           kw_affective_computing, kw_multimodal, kw_wearable >> ]

\* data is the parsed configuration file, None when no path is given: its
\* top-level keys replace those of DEFAULT_CONFIG, whole.
load_config(data) ==
    IF IsNone(data) THEN DEFAULT_CONFIG
    ELSE [k \in DOMAIN DEFAULT_CONFIG \cup DOMAIN data |->
            IF k \in DOMAIN data THEN data[k] ELSE DEFAULT_CONFIG[k]]

\* The list hits of _relevance_points, in the order of keywords.
RECURSIVE keyword_hits(_, _, _)
keyword_hits(t, keywords, stopwords) ==
    IF keywords = <<>> THEN <<>>
    ELSE LET k == _norm(Head(keywords))
             rest == keyword_hits(t, Tail(keywords), stopwords)
         IN  IF k = <<>> THEN rest
             ELSE IF k \in stopwords THEN rest
             ELSE IF Contains(t, k) THEN <<k>> \o rest
             ELSE rest

_relevance_points(text, keywords, stopwords, max_hits, pph) ==
    LET t == _tokenize(text)
        hits == keyword_hits(t, keywords, stopwords)
        points(uniq) == [pts |-> min(max_hits * pph, Len(uniq) * pph), hits |-> uniq]
    IN  points(slice_to(sorted_strs(unique(hits)), max_hits))

\* citation_count is None or an int.
offline_impact_points(citation_count, max_points) ==
    LET c == int_of(py_or(citation_count, PyInt(0)))
    IN  IF c <= 0 THEN 0
        ELSE IF c >= 500 THEN max_points
        ELSE IF c >= 200 THEN int_mul(max_points, 85)
        ELSE IF c >= 100 THEN int_mul_07(max_points)
        ELSE IF c >= 50 THEN int_mul(max_points, 55)
        ELSE IF c >= 20 THEN int_mul(max_points, 40)
        ELSE IF c >= 10 THEN int_mul(max_points, 25)
        ELSE int_mul(max_points, 10)

\* offline_recency_points with the age left unclamped: a year after the
\* reference year then has a negative age.
offline_recency_points_unclamped(year, max_points, this_year) ==
    LET y == int_of(py_or(year, PyInt(0)))
        age == this_year - y
    IN  IF y <= 0 THEN 0
        ELSE IF age >= 10 THEN 0
        ELSE round_decay(max_points, age)

\* year is None or an int.
offline_recency_points(year, max_points, this_year) ==
    LET y == int_of(py_or(year, PyInt(0)))
        age == max(0, this_year - y)
    IN  IF y <= 0 THEN 0
        ELSE IF age >= 10 THEN 0
        ELSE round_decay(max_points, age)

\* "\n".join([title, abstract, venue])
paper_text(p) == p.title \o <<"\n">> \o p.abstract \o <<"\n">> \o p.venue

offline_score_paper(p, c, this_year) ==
    LET w == c.weights
        relevance_max == get(w, "relevance_max", 60)
        impact_max == get(w, "impact_max", 20)
        recency_max == get(w, "recency_max", 20)
        rel_cfg == c.relevance
        pph == get(rel_cfg, "points_per_hit", 6)
        max_hits == get(rel_cfg, "max_unique_hits", 10)
        stopwords == {_norm(s) : s \in Range(get(rel_cfg, "stopwords", <<>>))}
        citations == _safe_int(p.citationCount)
        year == _safe_int(p.year)
        PaperScore(relevance_pts, impact_pts, recency_pts, hits) ==
            [ score |-> min(100, relevance_pts + impact_pts + recency_pts),
              relevance |-> relevance_pts,
              impact |-> impact_pts,
              recency |-> recency_pts,
              reason |-> [ kw |-> slice_to(hits, 6),
                           citations |-> citations,
                           year |-> py_or(year, None) ] ]
        scored(rel) ==
            PaperScore(
                min(relevance_max, rel.pts),
                min(impact_max, offline_impact_points(citations, impact_max)),
                min(recency_max, offline_recency_points(year, recency_max, this_year)),
                rel.hits)
    IN  scored(_relevance_points(paper_text(p), c.topic_keywords, stopwords,
                                 max_hits, pph))

----------------------------------------------------------------------------
(***************************************************************************)
(* scoring.py: the weighted-keyword scorer of the CLI.  A keyword dict is  *)
(* the sequence of its items [kw, w], keys distinct, in insertion order.   *)
(***************************************************************************)

DEFAULT_KEYWORDS ==
    << [kw |-> kw_emotion_regulation, w |-> 18],
       [kw |-> kw_affective_computing, w |-> 18],
       [kw |-> kw_ecological_momentary_assessment, w |-> 18],
       [kw |-> kw_experience_sampling, w |-> 14],
       [kw |-> kw_digital_mental_health, w |-> 16],
       [kw |-> kw_resilience, w |-> 10],
       [kw |-> kw_mental_health, w |-> 10],
       [kw |-> kw_wearable, w |-> 8],
       [kw |-> kw_multimodal, w |-> 8],
       [kw |-> kw_emotion, w |-> 3] >>

\* citations is None or an int.
scoring_impact_points(citations) ==
    LET c == max(0, int_of(py_or(citations, PyInt(0))))
    IN  IF c >= 500 THEN 20
        ELSE IF c >= 200 THEN 17
        ELSE IF c >= 100 THEN 14
        ELSE IF c >= 50 THEN 11
        ELSE IF c >= 20 THEN 8
        ELSE IF c >= 10 THEN 5
        ELSE IF c >= 1 THEN 2
        ELSE 0

\* year is None or an int; the reference year is read from the system date.
scoring_recency_points(year) ==
    LET y == int_of(py_or(year, PyInt(0)))
        this_year == today
        age == max(0, this_year - y)
    IN  IF y <= 0 THEN 0
        ELSE IF age >= 10 THEN 0
        ELSE round_decay(20, age)

\* The items of kws found in t, in the order of kws.
RECURSIVE weighted_hits(_, _)
weighted_hits(t, kws) ==
    IF kws = <<>> THEN <<>>
    ELSE IF Contains(t, Head(kws).kw)
        THEN <<Head(kws)>> \o weighted_hits(t, Tail(kws))
        ELSE weighted_hits(t, Tail(kws))

RECURSIVE sum_weights(_)
sum_weights(hits) ==
    IF hits = <<>> THEN 0 ELSE Head(hits).w + sum_weights(Tail(hits))

\* The order of hits.sort(key=lambda x: (-x[1], x[0])).
hit_before(a, b) == a.w > b.w \/ (a.w = b.w /\ StrLess(a.kw, b.kw))

RECURSIVE insert_hit(_, _)
insert_hit(x, s) ==
    IF s = <<>> THEN <<x>>
    ELSE IF hit_before(x, Head(s)) THEN <<x>> \o s
    ELSE <<Head(s)>> \o insert_hit(x, Tail(s))

RECURSIVE sorted_hits(_)
sorted_hits(s) ==
    IF s = <<>> THEN <<>>
    ELSE insert_hit(s[Len(s)], sorted_hits(SubSeq(s, 1, Len(s) - 1)))

\* keywords is a keyword dict; an empty one (like None) selects the default.
score_text(text, keywords) ==
    LET t == lower(text)
        kws == IF keywords = <<>> THEN DEFAULT_KEYWORDS ELSE keywords
        hits == weighted_hits(t, kws)
        sorted == sorted_hits(hits)
    IN  [ pts |-> max(0, min(60, sum_weights(hits))),
          hits |-> items([i \in 1..Len(sorted) |-> sorted[i].kw]) ]

scoring_score_paper(paper, keywords) ==
    LET rel == score_text(paper_text(paper), keywords)
        c0 == py_or(paper.citationCount, PyInt(0))
        citations == IF int_raises(c0) THEN 0 ELSE int_of(c0)
        impact == scoring_impact_points(PyInt(citations))
        y0 == py_or(paper.year, PyInt(0))
        year == IF int_raises(y0) THEN 0 ELSE int_of(y0)
        recency == scoring_recency_points(PyInt(year))
    IN  [ total |-> max(0, min(100, rel.pts + impact + recency)),
          relevance |-> rel.pts,
          impact |-> impact,
          recency |-> recency,
          note |-> [ hits |-> slice_to(rel.hits, 6),
                     citations |-> py_or(PyInt(citations), None),
                     year |-> py_or(PyInt(year), None) ] ]

----------------------------------------------------------------------------
(***************************************************************************)
(* Ranking: rows.sort(key=lambda r: (r.get("score", 0),                    *)
(* r.get("year") or 0), reverse=True), in both pipelines.                  *)
(***************************************************************************)

EmptyStr == PyStr(0)

\* The second component of the sort key.
key_year(r) == py_or(r.year, PyInt(0))

\* x == y and x < y of Python for two year keys.  An int and a bool compare
\* as numbers, two str by their order; a str and a number are unequal, and
\* ordering them raises TypeError.
year_eq(x, y) ==
    IF IsStr(x) /\ IsStr(y) THEN x.str = y.str
    ELSE IF IsStr(x) \/ IsStr(y) THEN FALSE
    ELSE int_of(x) = int_of(y)

year_lt_raises(x, y) == IsStr(x) # IsStr(y)

year_lt(x, y) ==
    IF IsStr(x) THEN x.str < y.str ELSE int_of(x) < int_of(y)

\* key=lambda r: r.get("score", 0): the order of the scores alone.
score_lt(a, b) == a.score < b.score

\* key(a) < key(b) for two rows whose keys can be ordered: tuples compare
\* by their first unequal components.
key_lt(a, b) ==
    IF a.score # b.score THEN a.score < b.score
    ELSE IF year_eq(key_year(a), key_year(b)) THEN FALSE
    ELSE year_lt(key_year(a), key_year(b))

\* Whether the sort raises TypeError.  The years of two rows are ordered only
\* when their scores are equal.  A comparison sort learns the order of two
\* rows either by comparing them or from comparisons it has made, so it
\* cannot arrange a group of rows of one score without comparing, in some
\* step, a row whose year is a str with a row whose year is a number, once
\* the group holds both.
sort_raises(rows) ==
    \E i, j \in 1..Len(rows) :
        /\ rows[i].score = rows[j].score
        /\ year_lt_raises(key_year(rows[i]), key_year(rows[j]))

\* The descending stable sort: x goes before the first row whose key is less.
RECURSIVE insert_row(_, _)
insert_row(x, s) ==
    IF s = <<>> THEN <<x>>
    ELSE IF key_lt(Head(s), x) THEN <<x>> \o s
    ELSE <<Head(s)>> \o insert_row(x, Tail(s))

RECURSIVE sort_rows(_)
sort_rows(rows) ==
    IF rows = <<>> THEN <<>>
    ELSE insert_row(rows[Len(rows)], sort_rows(SubSeq(rows, 1, Len(rows) - 1)))

----------------------------------------------------------------------------
(***************************************************************************)
(* offline_analyzer.py: the corpus pipeline.  A paper is a dict with the   *)
(* keys title, abstract, venue (str, empty when absent), year,             *)
(* citationCount (JSON values, None when absent), url and doi.             *)
(***************************************************************************)

\* load_papers with an empty list in place of the ValueError.
load_papers_or_empty(data) ==
    LET d == IF IsDict(data) /\ "data" \in DOMAIN data.dict
                 THEN data.dict.data
                 ELSE data
        dicts == IF IsList(d) THEN SelectSeq(d.list, IsDict) ELSE <<>>
    IN  [raised |-> "", papers |-> items([i \in 1..Len(dicts) |-> dicts[i].dict])]

\* data is the parsed corpus file.  raised names the exception, "" for none.
load_papers(data) ==
    LET d == IF IsDict(data) /\ "data" \in DOMAIN data.dict
                 THEN data.dict.data
                 ELSE data
    IN  IF ~IsList(d) THEN [raised |-> "ValueError", papers |-> <<>>]
        ELSE LET dicts == SelectSeq(d.list, IsDict)
             IN  [ raised |-> "",
                   papers |-> items([i \in 1..Len(dicts) |-> dicts[i].dict]) ]

\* The row analyze_corpus appends for paper p.
scored_row(p, c, this_year) ==
    LET row(sc) ==
            [ score |-> sc.score,
              relevance |-> sc.relevance,
              impact |-> sc.impact,
              recency |-> sc.recency,
              year |-> py_or(p.year, EmptyStr),
              citationCount |-> py_or(p.citationCount, EmptyStr),
              title |-> p.title,
              venue |-> p.venue,
              url |-> IF p.url # <<>> THEN p.url ELSE p.doi,
              reason |-> sc.reason ]
    IN  row(offline_score_paper(p, c, this_year))

\* for p in papers: scored.append({...})
RECURSIVE scored_rows(_, _, _)
scored_rows(papers, c, this_year) ==
    IF papers = <<>> THEN <<>>
    ELSE <<scored_row(Head(papers), c, this_year)>>
             \o scored_rows(Tail(papers), c, this_year)

\* input and config are the parsed files (config None without --config).
\* written tells whether write_scored_csv ran, rows what it wrote.
analyze_corpus(input, config, this_year) ==
    LET c == load_config(config)
        sort_and_write(scored) ==
            IF sort_raises(scored)
                THEN [raised |-> "TypeError", written |-> FALSE, rows |-> <<>>]
                ELSE [raised |-> "", written |-> TRUE, rows |-> sort_rows(scored)]
        score_all(loaded) ==
            IF loaded.raised # ""
                THEN [raised |-> loaded.raised, written |-> FALSE, rows |-> <<>>]
                ELSE sort_and_write(scored_rows(loaded.papers, c, this_year))
    IN  score_all(load_papers(input))

----------------------------------------------------------------------------
(***************************************************************************)
(* clients/semantic_scholar.py and cli.py: the live search.  The answer of *)
(* the remote endpoint is an input: [transport |-> e] when requests.get    *)
(* raises e, else [status |-> n, body |-> b], b the parsed JSON body or    *)
(* NotJson.                                                                *)
(***************************************************************************)

NotJson == [notjson |-> 0]

\* requests counts the HTTP requests sent.
search_papers(query, response) ==
    LET q == strip(query)
        failed(e) == [raised |-> e, papers |-> <<>>, requests |-> 1]
    IN  IF q = <<>> THEN [raised |-> "", papers |-> <<>>, requests |-> 0]
        ELSE IF "transport" \in DOMAIN response THEN failed(response.transport)
        ELSE IF response.status = 429 THEN failed("RuntimeError")
        ELSE IF response.status >= 400 /\ response.status < 600
            THEN failed("HTTPError")
        ELSE IF response.body = NotJson THEN failed("JSONDecodeError")
        ELSE IF ~IsDict(response.body) THEN failed("AttributeError")
        ELSE LET data == get(response.body.dict, "data", None)
             IN  [ raised |-> "",
                   papers |-> IF truthy_list(data) THEN data.list ELSE <<>>,
                   requests |-> 1 ]

\* The row cmd_search appends for paper p.
search_row(p) ==
    LET row(sc) ==
            [ score |-> sc.total,
              score_note |-> sc.note,
              year |-> py_or(p.year, EmptyStr),
              title |-> p.title,
              venue |-> p.venue,
              url |-> p.url,
              citations |-> py_or(p.citationCount, EmptyStr) ]
    IN  row(scoring_score_paper(p, <<>>))

\* for p in papers: rows.append({...})
RECURSIVE search_rows(_)
search_rows(papers) ==
    IF papers = <<>> THEN <<>>
    ELSE <<search_row(Head(papers).dict)>> \o search_rows(Tail(papers))

\* except Exception: every exception search_papers lets out is one.
is_exception(e) == TRUE

\* except RuntimeError: of the exceptions search_papers lets out, only its
\* own RuntimeError is one (HTTPError, ConnectionError and Timeout are
\* OSErrors, JSONDecodeError a ValueError).
is_runtime_error(e) == e = "RuntimeError"

\* written tells whether _write_outputs ran, rows what it wrote to
\* results.json and results.csv; exit is the return code, None when an
\* exception leaves the function.
cmd_search(query, response) ==
    LET run(found) ==
            LET caught == found.raised # "" /\ is_runtime_error(found.raised)
                papers == IF caught THEN <<>> ELSE found.papers
                out(raised, written, sorted) ==
                    [ raised |-> raised, warned |-> caught, written |-> written,
                      rows |-> sorted, requests |-> found.requests,
                      exit |-> IF raised = "" THEN PyInt(0) ELSE None ]
                sort_and_write(rows) ==
                    IF sort_raises(rows) THEN out("TypeError", FALSE, <<>>)
                    ELSE out("", TRUE, sort_rows(rows))
            IN  IF found.raised # "" /\ ~caught THEN out(found.raised, FALSE, <<>>)
                ELSE sort_and_write(search_rows(papers))
    IN  run(search_papers(query, response))

----------------------------------------------------------------------------
(***************************************************************************)
(* The system date.                                                        *)
(***************************************************************************)

Tick ==
    /\ today < BaseYear + MaxTicks
    /\ today' = today + 1
    /\ UNCHANGED <<cfg, call, disk>>

----------------------------------------------------------------------------
(***************************************************************************)
(* Impact: the two _impact_points, called on citation counts around every  *)
(* threshold, under a maximum fixed for the session.                       *)
(***************************************************************************)

CitationSamples ==
    {None} \cup
    {PyInt(n) : n \in {-1, 0, 1, 9, 10, 19, 20, 49, 50, 99, 100, 199, 200,
                       499, 500, 501}}

InitImpact ==
    /\ today = BaseYear
    /\ cfg \in [impact_max : 0..MaxImpactMax]
    /\ call = NoCall
    /\ disk = NoOutputs

CallOfflineImpact(c) ==
    /\ call' = [ fn |-> "offline_impact_points",
                 citations |-> c,
                 max_points |-> cfg.impact_max,
                 pts |-> offline_impact_points(c, cfg.impact_max) ]
    /\ UNCHANGED <<today, cfg, disk>>

CallScoringImpact(c) ==
    /\ call' = [ fn |-> "scoring_impact_points",
                 citations |-> c,
                 max_points |-> 20,
                 pts |-> scoring_impact_points(c) ]
    /\ UNCHANGED <<today, cfg, disk>>

NextImpact ==
    \E c \in CitationSamples :
        \/ CallOfflineImpact(c)
        \/ CallScoringImpact(c)

SpecImpact == InitImpact /\ [][NextImpact]_vars

\* The citation count a call was given, None counting as 0.
CallCitations == int_of(py_or(call.citations, PyInt(0)))

\* The impact function a call ran, on another count.
ImpactAgain(c) ==
    IF call.fn = "offline_impact_points"
        THEN offline_impact_points(c, call.max_points)
        ELSE scoring_impact_points(c)

\* x per cent of m, truncated to an integer.
PercentOf(m, x) == (m * x) \div 100

\* C9: the impact sub-score is a non-decreasing step function of the
\* citation count with values in [0, max]: 0 for an absent, zero or negative
\* count, max from 500 on, and 85, 70, 55, 40, 25 and 10 per cent of max,
\* truncated, from 200, 100, 50, 20, 10 and 1 on; the hard-coded variant
\* returns what the configurable one returns with max = 20.
ImpactIsTheStepFunction ==
    call.fn \in {"offline_impact_points", "scoring_impact_points"} =>
        LET c == CallCitations
            m == call.max_points
        IN  /\ call.pts \in 0..m
            /\ c <= 0 => call.pts = 0
            /\ c >= 500 => call.pts = m
            /\ c \in 200..499 => call.pts = PercentOf(m, 85)
            /\ c \in 100..199 => call.pts = PercentOf(m, 70)
            /\ c \in 50..99 => call.pts = PercentOf(m, 55)
            /\ c \in 20..49 => call.pts = PercentOf(m, 40)
            /\ c \in 10..19 => call.pts = PercentOf(m, 25)
            /\ c \in 1..9 => call.pts = PercentOf(m, 10)
            /\ \A c2 \in CitationSamples \ {None} :
                   c2.int >= c => ImpactAgain(c2) >= call.pts
            /\ call.fn = "scoring_impact_points" =>
                   call.pts = offline_impact_points(call.citations, 20)

----------------------------------------------------------------------------
(***************************************************************************)
(* Recency: the two _recency_points.  The offline one is given its         *)
(* reference year, the other reads the system date.                        *)
(***************************************************************************)

YearSamples ==
    {None, PyInt(0), PyInt(-1)} \cup
    {PyInt(y) : y \in (BaseYear - 12)..(BaseYear + MaxTicks + 1)}

RefYears == (BaseYear - 1)..BaseYear

InitRecency ==
    /\ today = BaseYear
    /\ cfg \in [recency_max : 0..MaxRecencyMax, this_year : RefYears]
    /\ call = NoCall
    /\ disk = NoOutputs

CallOfflineRecency(y) ==
    /\ call' = [ fn |-> "offline_recency_points",
                 year |-> y,
                 max_points |-> cfg.recency_max,
                 this_year |-> cfg.this_year,
                 pts |-> offline_recency_points(y, cfg.recency_max, cfg.this_year) ]
    /\ UNCHANGED <<today, cfg, disk>>

\* this_year records the system date the call read.
CallScoringRecency(y) ==
    /\ call' = [ fn |-> "scoring_recency_points",
                 year |-> y,
                 max_points |-> 20,
                 this_year |-> today,
                 pts |-> scoring_recency_points(y) ]
    /\ UNCHANGED <<today, cfg, disk>>

NextRecency ==
    \/ \E y \in YearSamples : CallOfflineRecency(y)
    \/ \E y \in YearSamples : CallScoringRecency(y)
    \/ Tick

SpecRecency == InitRecency /\ [][NextRecency]_vars

\* The year a call was given, None counting as 0, and its age at the
\* reference year of the call.
CallYear == int_of(py_or(call.year, PyInt(0)))

AgeOf(y) == max(0, call.this_year - y)

\* The recency function a call ran, on another year.
RecencyAgain(y) ==
    IF call.fn = "offline_recency_points"
        THEN offline_recency_points(y, call.max_points, call.this_year)
        ELSE scoring_recency_points(y)

\* C8: the recency sub-score does not increase with the age
\* max(0, reference year - year), is the maximum at age 0 (a year after the
\* reference year included), 0 from age 10 on, and 0 for an absent year or a
\* year <= 0.  The reference year of the scoring.py variant is the system
\* date it read, so its calls are compared while that date stands.
RecencyDecays ==
    ( /\ call.fn \in {"offline_recency_points", "scoring_recency_points"}
      /\ (call.fn = "scoring_recency_points" => call.this_year = today) )
    => ( /\ (CallYear <= 0 => call.pts = 0)
         /\ (CallYear > 0 /\ AgeOf(CallYear) = 0 => call.pts = call.max_points)
         /\ (CallYear > 0 /\ AgeOf(CallYear) >= 10 => call.pts = 0)
         /\ (CallYear > 0 =>
                \A y2 \in YearSamples \ {None} :
                    (y2.int > 0 /\ AgeOf(y2.int) >= AgeOf(CallYear))
                        => RecencyAgain(y2) <= call.pts) )

\* A call of the configurable variant in the middle of the decay.
RecencyDecaysWitness ==
    /\ call.fn = "offline_recency_points"
    /\ CallYear > 0
    /\ AgeOf(CallYear) \in 1..9
    /\ call.pts > 0
    /\ call.pts < call.max_points

----------------------------------------------------------------------------
(***************************************************************************)
(* Relevance: one call of _relevance_points or of score_text per behaviour, *)
(* on any text of a small alphabet under any keyword configuration.        *)
(***************************************************************************)

TextAlphabet == {"a", "B", " ", "/"}

TextsUpTo(n) == UNION {[1..k -> TextAlphabet] : k \in 0..n}

\* Lists of topic keywords: spellings that differ in case and in white
\* space, a phrase, and a keyword listed twice.
TopicKeywordLists ==
    { << <<"a">> >>,
      << <<"A">>, <<"b">> >>,
      << <<"a">>, <<"A">>, <<" ", "a">> >>,
      << <<"b">>, <<"a", " ", "b">>, <<"b">> >>,
      << <<"a", " ", " ", "B">>, <<"a">>, <<"b">> >> }

\* Keyword dicts: a capital keyword, weights that pass the cap of 60, a
\* negative weight, equal weights.
KeywordDicts ==
    { << [kw |-> <<"a">>, w |-> 3] >>,
      << [kw |-> <<"A">>, w |-> 5], [kw |-> <<"b">>, w |-> 10] >>,
      << [kw |-> <<"a">>, w |-> 40], [kw |-> <<"b">>, w |-> 40] >>,
      << [kw |-> <<"a", " ", "b">>, w |-> 18], [kw |-> <<"a">>, w |-> 3],
         [kw |-> <<"b">>, w |-> -5] >>,
      << [kw |-> <<"b">>, w |-> 10], [kw |-> <<"a">>, w |-> 10] >> }

RelevanceConfigs ==
    [ kind : {"flat"},
      keywords : TopicKeywordLists,
      stopwords : {{}, {<<"b">>}},
      max_hits : {1, 10},
      pph : {6} ]
    \cup [kind : {"weighted"}, keywords : KeywordDicts]

InitRelevance ==
    /\ today = BaseYear
    /\ cfg \in RelevanceConfigs
    /\ call = NoCall
    /\ disk = NoOutputs

CallRelevancePoints ==
    /\ call = NoCall
    /\ cfg.kind = "flat"
    /\ \E text \in TextsUpTo(MaxTextLen) :
           LET r == _relevance_points(text, cfg.keywords, cfg.stopwords,
                                      cfg.max_hits, cfg.pph)
           IN  call' = [ fn |-> "_relevance_points", text |-> text,
                         pts |-> r.pts, hits |-> r.hits ]
    /\ UNCHANGED <<today, cfg, disk>>

CallScoreText ==
    /\ call = NoCall
    /\ cfg.kind = "weighted"
    /\ \E text \in TextsUpTo(MaxTextLen) :
           LET r == score_text(text, cfg.keywords)
           IN  call' = [ fn |-> "score_text", text |-> text,
                         pts |-> r.pts, hits |-> r.hits ]
    /\ UNCHANGED <<today, cfg, disk>>

NextRelevance ==
    \/ CallRelevancePoints
    \/ CallScoreText

SpecRelevance == InitRelevance /\ [][NextRelevance]_vars

\* The scorer a call ran, on another text, as [pts, hits].
RelevanceAgain(t) ==
    IF call.fn = "_relevance_points"
        THEN _relevance_points(t, cfg.keywords, cfg.stopwords, cfg.max_hits, cfg.pph)
        ELSE score_text(t, cfg.keywords)

\* Which configured keywords (by their place in the configuration) occur
\* in text t, as the scorer of the call looks for them.
Occurring(t) ==
    IF call.fn = "_relevance_points"
        THEN {i \in 1..Len(cfg.keywords) :
                 Contains(_tokenize(t), _norm(cfg.keywords[i]))}
        ELSE {i \in 1..Len(cfg.keywords) :
                 Contains(lower(t), cfg.keywords[i].kw)}

\* The text of a call with one of its hits repeated after it, before it or
\* right behind it, and the short texts.
Variations ==
    UNION {{call.text \o <<" ">> \o k, k \o <<" ">> \o call.text, call.text \o k} :
              k \in Range(call.hits)}
    \cup TextsUpTo(2)

\* C7: the relevance points and the hit list depend only on which configured
\* keywords occur in the text, not on how often: a text in which the same
\* keywords occur (the text with a matched phrase repeated, for one) scores
\* the same; and the flat-points scorer counts a keyword once however often
\* and in whatever spelling the configuration lists it.
KeywordsCountOnce ==
    call.fn \in {"_relevance_points", "score_text"} =>
        /\ \A t \in Variations :
               Occurring(t) = Occurring(call.text) =>
                   RelevanceAgain(t) = [pts |-> call.pts, hits |-> call.hits]
        /\ call.fn = "_relevance_points" =>
               LET counted == {_norm(cfg.keywords[i]) : i \in Occurring(call.text)}
                                  \ cfg.stopwords
               IN  /\ Len(call.hits) = min(cfg.max_hits, Cardinality(counted))
                   /\ call.pts = cfg.pph * Len(call.hits)

\* A text that repeats a keyword the configuration lists twice.
KeywordsCountOnceWitness ==
    /\ call.fn = "_relevance_points"
    /\ cfg.keywords = << <<"b">>, <<"a", " ", "b">>, <<"b">> >>
    /\ cfg.stopwords = {}
    /\ cfg.max_hits = 10
    /\ call.text = <<"B", " ", "B">>
    /\ call.pts = 6

\* C10: a configured keyword is a hit exactly when its case-normalized form
\* is a substring of the normalized text and it is no stopword (score_text
\* has no stopwords), in whatever letter case the configuration writes it.
\* The hit list of _relevance_points is compared when max_hits does not cut
\* it.
KeywordMatchIgnoresCase ==
    /\ call.fn = "_relevance_points" =>
           LET expected == {k \in {_norm(x) : x \in Range(cfg.keywords)} :
                                Contains(_tokenize(call.text), k)}
           IN  Cardinality(expected \ cfg.stopwords) <= cfg.max_hits =>
                   Range(call.hits) = expected \ cfg.stopwords
    /\ call.fn = "score_text" =>
           Range(call.hits) =
               {cfg.keywords[i].kw : i \in
                   {j \in 1..Len(cfg.keywords) :
                       Contains(lower(call.text), lower(cfg.keywords[j].kw))}}

----------------------------------------------------------------------------
(***************************************************************************)
(* Scoring: one call of either score_paper per behaviour, on any paper of  *)
(* a pool under any session of a pool, while the system date moves on.     *)
(***************************************************************************)

\* Parsed configuration files; None stands for no --config.  A file gives
\* some top-level keys and leaves the others to DEFAULT_CONFIG.
ConfigFiles ==
    { None,
      [weights |-> [relevance_max |-> 10, impact_max |-> 90, recency_max |-> 45]],
      [relevance |-> [points_per_hit |-> -6]],
      [ weights |-> [impact_max |-> 5],
        relevance |-> [points_per_hit |-> 30, max_unique_hits |-> 3],
        topic_keywords |-> <<kw_wearable, kw_emotion, kw_resilience>> ] }

\* The keywords argument of scoring.score_paper; <<>> is its default None.
CliKeywords ==
    { <<>>,
      << [kw |-> kw_wearable, w |-> 70], [kw |-> kw_emotion, w |-> -20] >> }

ScoreSessions ==
    [config : ConfigFiles, this_year : {BaseYear - 1, BaseYear}, keywords : CliKeywords]

Titles ==
    { <<>>,
      kw_emotion_regulation,
      kw_digital_mental_health \o <<" ">> \o kw_emotion_regulation \o <<" ">>
          \o kw_resilience \o <<" ">> \o kw_wearable }

YearValues ==
    {None, PyStr(1)} \cup
    {PyInt(y) : y \in {-3, 0, BaseYear - 16, BaseYear - 5, BaseYear, BaseYear + 4}}

CitationValues ==
    {None, PyStr(1), PyBool(TRUE)} \cup {PyInt(n) : n \in {-5, 0, 7, 100, 1000}}

ScoredPapers ==
    [ title : Titles, abstract : {<<>>}, venue : {<<>>},
      year : YearValues, citationCount : CitationValues ]

InitScore ==
    /\ today = BaseYear
    /\ cfg \in ScoreSessions
    /\ call = NoCall
    /\ disk = NoOutputs

ScoreOffline ==
    /\ call = NoCall
    /\ \E p \in ScoredPapers :
           call' = [ fn |-> "offline_score_paper", paper |-> p,
                     result |-> offline_score_paper(p, load_config(cfg.config),
                                                    cfg.this_year) ]
    /\ UNCHANGED <<today, cfg, disk>>

ScoreCli ==
    /\ call = NoCall
    /\ \E p \in ScoredPapers :
           call' = [ fn |-> "scoring_score_paper", paper |-> p,
                     result |-> scoring_score_paper(p, cfg.keywords) ]
    /\ UNCHANGED <<today, cfg, disk>>

NextScore ==
    \/ ScoreOffline
    \/ ScoreCli
    \/ Tick

SpecScore == InitScore /\ [][NextScore]_vars

\* C1: score_paper returns a total in [0, 100] and each sub-score in
\* [0, its maximum]: the maxima of the loaded configuration in the offline
\* variant, 60/20/20 in the CLI variant.
ScoresStayInRange ==
    /\ call.fn = "offline_score_paper" =>
           LET w == load_config(cfg.config).weights
           IN  /\ call.result.score \in 0..100
               /\ call.result.relevance \in 0..get(w, "relevance_max", 60)
               /\ call.result.impact \in 0..get(w, "impact_max", 20)
               /\ call.result.recency \in 0..get(w, "recency_max", 20)
    /\ call.fn = "scoring_score_paper" =>
           /\ call.result.total \in 0..100
           /\ call.result.relevance \in 0..60
           /\ call.result.impact \in 0..20
           /\ call.result.recency \in 0..20

\* C5: the result of score_paper is a function of the record, the
\* configuration and the supplied reference year alone: evaluated again at
\* whatever the system date has become, either variant returns what the
\* call returned.
ScoringIgnoresSystemDate ==
    /\ call.fn = "offline_score_paper" =>
           offline_score_paper(call.paper, load_config(cfg.config), cfg.this_year)
               = call.result
    /\ call.fn = "scoring_score_paper" =>
           scoring_score_paper(call.paper, cfg.keywords) = call.result

----------------------------------------------------------------------------
(***************************************************************************)
(* The two commands: one run of `analyze` or of `search` per behaviour,    *)
(* on any corpus document or any answer of the remote endpoint, at any     *)
(* system date.                                                            *)
(***************************************************************************)

Paper(title, year, citations) ==
    [ title |-> title, abstract |-> <<>>, venue |-> <<>>, year |-> year,
      citationCount |-> citations, url |-> <<>>, doi |-> <<>> ]

\* A paper that scores high, with a citation count that is no number, and
\* four that score 0, with the years 2010 and 2012, no year and a year that
\* is no number.
PaperPool ==
    { Paper(kw_emotion_regulation, PyInt(BaseYear), PyStr(1)),
      Paper(<<>>, PyInt(BaseYear - 16), None),
      Paper(<<>>, PyInt(BaseYear - 14), PyInt(0)),
      Paper(<<>>, None, None),
      Paper(<<>>, PyStr(1), None) }

CorporaUpTo(n) == UNION {[1..k -> {PyDict(p) : p \in PaperPool}] : k \in 0..n}

Corpora == CorporaUpTo(MaxPapers)

\* Parsed corpus files: a list, a dict with the list under data, and what
\* is neither.
CorpusDocuments ==
    {PyList(c) : c \in Corpora}
    \cup {PyDict([data |-> PyList(c)]) : c \in CorporaUpTo(1)}
    \cup { PyDict([total |-> PyInt(0)]),
           PyDict([data |-> None]),
           PyDict([data |-> PyDict([total |-> PyInt(0)])]),
           PyInt(3), None, PyStr(1),
           PyList(<<PyInt(3), PyDict(Paper(<<>>, None, None))>>) }

\* Answers of the endpoint to the one request.
Responses ==
    {[transport |-> e] : e \in {"ConnectionError", "Timeout"}}
    \cup {[status |-> n, body |-> NotJson] : n \in {429, 404, 500}}
    \cup {[status |-> 200, body |-> PyDict([data |-> PyList(c)])] : c \in Corpora}
    \cup {[status |-> 200, body |-> b] :
             b \in {PyDict([total |-> PyInt(0)]), PyDict([data |-> None]),
                    NotJson, PyList(<<>>)}}

Queries == {<<>>, <<" ">>, <<"a">>}

InitPipeline ==
    /\ today = BaseYear
    /\ cfg \in [config : {None, [weights |-> [impact_max |-> 5]]},
                this_year : {BaseYear - 1, BaseYear}]
    /\ call = NoCall
    /\ disk = NoOutputs

CmdAnalyze ==
    /\ call = NoCall
    /\ \E input \in CorpusDocuments :
           LET r == analyze_corpus(input, cfg.config, cfg.this_year)
           IN  /\ call' = [fn |-> "cmd_analyze", input |-> input, result |-> r]
               /\ disk' = IF r.written
                              THEN [disk EXCEPT !.scored_csv = File(r.rows)]
                              ELSE disk
    /\ UNCHANGED <<today, cfg>>

CmdSearch ==
    /\ call = NoCall
    /\ \E query \in Queries, response \in Responses :
           LET r == cmd_search(query, response)
           IN  /\ call' = [ fn |-> "cmd_search", query |-> query,
                            response |-> response,
                            search |-> search_papers(query, response),
                            result |-> r ]
               /\ disk' = IF r.written
                              THEN [disk EXCEPT !.results = File(r.rows)]
                              ELSE disk
    /\ UNCHANGED <<today, cfg>>

NextPipeline ==
    \/ CmdAnalyze
    \/ CmdSearch
    \/ Tick

SpecPipeline == InitPipeline /\ [][NextPipeline]_vars

\* The year of a row for the comparison, a missing year being 0.
RankYear(r) == IF r.year = EmptyStr \/ IsNone(r.year) THEN PyInt(0) ELSE r.year

\* (score(a), year(a)) >= (score(b), year(b)), lexicographically.
RankGe(a, b) ==
    \/ a.score > b.score
    \/ /\ a.score = b.score
       /\ IF IsStr(RankYear(a)) /\ IsStr(RankYear(b))
              THEN RankYear(a).str >= RankYear(b).str
          ELSE IF IsStr(RankYear(a)) \/ IsStr(RankYear(b)) THEN FALSE
          ELSE int_of(RankYear(a)) >= int_of(RankYear(b))

Ranked(rows) == \A i \in 1..(Len(rows) - 1) : RankGe(rows[i], rows[i + 1])

\* C2: the rows analyze_corpus and cmd_search write are in descending order
\* of score and, among rows of one score, in descending order of year, a
\* missing year counting as 0: every row is at least the row after it.
RowsAreRanked ==
    /\ disk.scored_csv.exists => Ranked(disk.scored_csv.rows)
    /\ disk.results.exists => Ranked(disk.results.rows)

\* Three rows written, the first above the others on score, the other two
\* of one score and put in the order of their years against the input order.
RowsAreRankedWitness ==
    /\ call.fn = "cmd_analyze"
    /\ disk.scored_csv.exists
    /\ Len(disk.scored_csv.rows) = 3
    /\ disk.scored_csv.rows[1].score > disk.scored_csv.rows[2].score
    /\ disk.scored_csv.rows[2].score = disk.scored_csv.rows[3].score
    /\ disk.scored_csv.rows[2].year = PyInt(BaseYear - 14)
    /\ disk.scored_csv.rows[3].year = EmptyStr
    /\ IsList(call.input)
    /\ call.input.list[1].dict.year = None

\* C3: a year or a citation count that is no number never makes a run
\* raise: once the papers are there (the corpus loaded, the search
\* answered), analyze_corpus and cmd_search score, sort and write them.
DirtyValuesNeverRaise ==
    /\ call.fn = "cmd_analyze" /\ load_papers(call.input).raised = ""
           => call.result.raised = "" /\ disk.scored_csv.exists
    /\ call.fn = "cmd_search" /\ call.search.raised = ""
           => call.result.raised = "" /\ disk.results.exists

\* C4: a 429 makes search_papers raise its RuntimeError after one request,
\* and cmd_search then warns, writes empty result files and returns 0; any
\* other error status and any transport error leaves cmd_search as the
\* exception it is, after one request, with no file written.
RateLimitIsTheOnlyRecovery ==
    call.fn = "cmd_search" /\ strip(call.query) # <<>> =>
        /\ "status" \in DOMAIN call.response /\ call.response.status = 429 =>
               /\ call.search.raised = "RuntimeError"
               /\ call.search.requests = 1
               /\ call.result.requests = 1
               /\ call.result.warned
               /\ call.result.raised = ""
               /\ call.result.exit = PyInt(0)
               /\ disk.results = File(<<>>)
        /\ \/ "transport" \in DOMAIN call.response
           \/ /\ "status" \in DOMAIN call.response
              /\ call.response.status \in 400..599
              /\ call.response.status # 429
           => /\ call.result.raised =
                     (IF "transport" \in DOMAIN call.response
                          THEN call.response.transport ELSE "HTTPError")
              /\ call.result.requests = 1
              /\ ~call.result.warned
              /\ call.result.exit = None
              /\ disk = NoOutputs

\* A search that met a 429 and wrote its empty files.
RateLimitIsTheOnlyRecoveryWitness ==
    /\ call.fn = "cmd_search"
    /\ "status" \in DOMAIN call.response
    /\ call.response.status = 429
    /\ call.result.warned
    /\ disk.results = File(<<>>)

\* Whether a parsed document is a list, or a dict with a list under data.
IsCorpus(doc) ==
    \/ IsList(doc)
    \/ IsDict(doc) /\ "data" \in DOMAIN doc.dict /\ IsList(doc.dict.data)

\* C6: load_papers returns for a list and for a dict with a list under
\* data, and raises ValueError for every other document; analyze_corpus
\* then ends in that ValueError and writes no CSV.
OnlyCorporaLoad ==
    call.fn = "cmd_analyze" =>
        /\ load_papers(call.input).raised = "" <=> IsCorpus(call.input)
        /\ ~IsCorpus(call.input) =>
               /\ load_papers(call.input).raised = "ValueError"
               /\ call.result.raised = "ValueError"
               /\ ~call.result.written
               /\ disk = NoOutputs

\* A run on a bare object without a data key.
OnlyCorporaLoadWitness ==
    /\ call.fn = "cmd_analyze"
    /\ IsDict(call.input)
    /\ "data" \notin DOMAIN call.input.dict
    /\ call.result.raised = "ValueError"
    /\ disk = NoOutputs

====
